---- MODULE Spec2Model ----
(***************************************************************************)
(* A model of package transform (src/transform/replacer.go): the chunked   *)
(* Replacer.Transform, the ReplaceHistory ledger, the replace tables and   *)
(* ReplaceAll.  Byte slices are sequences of one-character strings.        *)
(***************************************************************************)
EXTENDS Integers, Sequences, FiniteSets, TLC

\* ---------------------------------------------------------------- bounds
MaxStream == 3      \* longest input stream
MaxOld == 2         \* longest old pattern
MaxNew == 1         \* longest new pattern
MaxDst == 1         \* small destination sizes are 0..MaxDst

Bytes == {"a", "b"}
NewBytes == {"c"}
Blank == "_"        \* content of a destination byte never written

\* ------------------------------------------------------------- byte slices
SeqsUpTo(S, n) == UNION {[1..k -> S] : k \in 0..n}

Min(x, y) == IF x < y THEN x ELSE y

\* s[lo:hi] of Go, 0-based and half-open
Slice(s, lo, hi) == SubSeq(s, lo + 1, hi)

\* make([]byte, n)
MakeBytes(n) == [k \in 1..n |-> Blank]

\* bytes.HasPrefix(s, prefix)
HasPrefix(s, prefix) ==
    /\ Len(s) >= Len(prefix)
    /\ Slice(s, 0, Len(prefix)) = prefix

\* bytes.Index(s, sep): the least offset at which sep occurs in s, or -1
Index(s, sep) ==
    LET hits == {k \in 0..(Len(s) - Len(sep)) : Slice(s, k, k + Len(sep)) = sep}
    IN IF hits = {} THEN -1 ELSE CHOOSE k \in hits : \A j \in hits : k <= j

\* the number of bytes copy(dst[at:], src) copies
CopyLen(dst, at, src) == Min(Len(dst) - at, Len(src))

\* dst after copy(dst[at:], src)
Copy(dst, at, src) ==
    [k \in 1..Len(dst) |->
        IF k > at /\ k <= at + CopyLen(dst, at, src) THEN src[k - at] ELSE dst[k]]

\* ------------------------------------------------------------------ errors
ErrNil == "nil"
ErrShortSrc == "ErrShortSrc"
ErrShortDst == "ErrShortDst"

\* ---------------------------------------------------------- ReplaceHistory
\* a nil *ReplaceHistory
NilHistory == [isNil |-> TRUE, src0 |-> <<>>, src1 |-> <<>>, dst0 |-> <<>>, dst1 |-> <<>>]

NewReplaceHistory == [isNil |-> FALSE, src0 |-> <<>>, src1 |-> <<>>, dst0 |-> <<>>, dst1 |-> <<>>]

\* add without the test of a nil receiver
addNoNilCheck(h, src0, src1, dst0, dst1) ==
    [h EXCEPT !.src0 = Append(@, src0), !.src1 = Append(@, src1),
              !.dst0 = Append(@, dst0), !.dst1 = Append(@, dst1)]

add(h, src0, src1, dst0, dst1) ==
    IF h.isNil THEN h
    ELSE [h EXCEPT !.src0 = Append(@, src0), !.src1 = Append(@, src1),
                   !.dst0 = Append(@, dst0), !.dst1 = Append(@, dst1)]

\* At(index); the index is in range
At(h, index) == <<h.src0[index + 1], h.src1[index + 1], h.dst0[index + 1], h.dst1[index + 1]>>

\* the loop of Iterate from index i on without the break: every record is visited
RECURSIVE IterateAllFrom(_, _, _)
IterateAllFrom(h, rejected, i) ==
    IF i >= Len(h.src0) THEN <<>>
    ELSE <<At(h, i)>> \o IterateAllFrom(h, rejected, i + 1)

\* Iterate without the break
IterateNoBreak(h, rejected) == IF h.isNil THEN <<>> ELSE IterateAllFrom(h, rejected, 0)

\* the loop of Iterate from index i on: the records f is called with, f being
\* a visitor that returns false for the records in rejected and true for others
RECURSIVE IterateFrom(_, _, _)
IterateFrom(h, rejected, i) ==
    IF i >= Len(h.src0) THEN <<>>
    ELSE IF At(h, i) \in rejected THEN <<At(h, i)>>
    ELSE <<At(h, i)>> \o IterateFrom(h, rejected, i + 1)

\* Iterate(f): the records f is called with, in the order of the calls
Iterate(h, rejected) == IF h.isNil THEN <<>> ELSE IterateFrom(h, rejected, 0)

\* ----------------------------------------------------------------- Replacer
NewReplacer(old, new, history) == [old |-> old, new |-> new, history |-> history]

\* ShortSrcErr with the test of atEOF inverted
ShortSrcErrInverted(atEOF) == IF atEOF THEN ErrShortSrc ELSE ErrNil

\* the error of the branch len(src) < len(r.old)
ShortSrcErr(atEOF) == IF ~atEOF THEN ErrShortSrc ELSE ErrNil

\* the error of a return for want of destination space
ShortDstErr(nDst, err) == IF nDst = 0 THEN ErrShortDst ELSE err

\* boundary := len(src[nSrc:]) % len(r.old)
Boundary(src, nSrc, old) == (Len(src) - nSrc) % Len(old)

\* Withheld with the arguments of bytes.HasPrefix exchanged
WithheldSwapped(old, src, nSrc, atEOF) ==
    LET boundary == Boundary(src, nSrc, old)
    IN /\ ~atEOF
       /\ boundary # 0
       /\ HasPrefix(Slice(src, Len(src) - boundary, Len(src)), old)

\* the test that excludes the boundary bytes
Withheld(old, src, nSrc, atEOF) ==
    LET boundary == Boundary(src, nSrc, old)
    IN /\ ~atEOF
       /\ boundary # 0
       /\ HasPrefix(old, Slice(src, Len(src) - boundary, Len(src)))

\* RecordMatch with len(r.old) where the destination range needs len(r.new)
RecordMatchOldLen(h, old, new, nSrc, i, nDst) ==
    add(h, nSrc + i, nSrc + i + Len(old), nDst, nDst + Len(old))

\* RecordMatch with the source range counted from src[nSrc:], not from src
RecordMatchNoOffset(h, old, new, nSrc, i, nDst) ==
    add(h, i, i + Len(old), nDst, nDst + Len(new))

\* r.history.add(nSrc+i, nSrc+i+len(r.old), nDst, nDst+len(r.new)), nDst
\* being the cursor after the bytes before the match were copied
RecordMatch(h, old, new, nSrc, i, nDst) ==
    add(h, nSrc + i, nSrc + i + Len(old), nDst, nDst + Len(new))

\* the branch i == -1 of the loop; s is (nDst, nSrc, err, dst, history)
NotFound(old, src, atEOF, s) ==
    LET withheld == Withheld(old, src, s.nSrc, atEOF)
        n == IF withheld THEN (Len(src) - s.nSrc) - Boundary(src, s.nSrc, old)
             ELSE Len(src) - s.nSrc
        err == IF withheld THEN ErrShortDst ELSE s.err
    IN IF Len(s.dst) - s.nDst < n
       THEN [s EXCEPT !.err = ShortDstErr(s.nDst, err)]
       ELSE LET m == CopyLen(s.dst, s.nDst, Slice(src, s.nSrc, s.nSrc + n))
            IN [s EXCEPT !.dst = Copy(s.dst, s.nDst, Slice(src, s.nSrc, s.nSrc + n)),
                         !.nDst = @ + m, !.nSrc = @ + m, !.err = err]

\* Found with the bytes copied before the match not counted in nDst
FoundPrefixUncounted(old, new, src, i, s) ==
    LET pre == Slice(src, s.nSrc, s.nSrc + i)
        d1 == Copy(s.dst, s.nDst, pre)
        n1 == s.nDst + CopyLen(s.dst, s.nDst, pre)
    IN [s EXCEPT !.dst = Copy(d1, n1, new),
                 !.nDst = @ + CopyLen(d1, n1, new),
                 !.nSrc = @ + i + Len(old),
                 !.history = RecordMatch(s.history, old, new, s.nSrc, i, n1)]

\* one found occurrence at offset i of src[nSrc:], with room in dst
Found(old, new, src, i, s) ==
    LET pre == Slice(src, s.nSrc, s.nSrc + i)
        d1 == Copy(s.dst, s.nDst, pre)
        n1 == s.nDst + CopyLen(s.dst, s.nDst, pre)
    IN [s EXCEPT !.dst = Copy(d1, n1, new),
                 !.nDst = n1 + CopyLen(d1, n1, new),
                 !.nSrc = @ + i + Len(old),
                 !.history = RecordMatch(s.history, old, new, s.nSrc, i, n1)]

\* TransformLoop with the record added before dst is known to have room
RECURSIVE TransformLoopEager(_, _, _, _, _)
TransformLoopEager(old, new, src, atEOF, s) ==
    LET i == Index(Slice(src, s.nSrc, Len(src)), old)
    IN IF i = -1 THEN NotFound(old, src, atEOF, s)
       ELSE IF Len(s.dst) - s.nDst < i + Len(new)
            THEN [s EXCEPT !.err = ShortDstErr(s.nDst, s.err),
                           !.history = RecordMatch(s.history, old, new, s.nSrc, i, s.nDst + i)]
            ELSE TransformLoopEager(old, new, src, atEOF, Found(old, new, src, i, s))

\* the for loop of Transform
RECURSIVE TransformLoop(_, _, _, _, _)
TransformLoop(old, new, src, atEOF, s) ==
    LET i == Index(Slice(src, s.nSrc, Len(src)), old)
    IN IF i = -1 THEN NotFound(old, src, atEOF, s)
       ELSE IF Len(s.dst) - s.nDst < i + Len(new)
            THEN [s EXCEPT !.err = ShortDstErr(s.nDst, s.err)]
            ELSE TransformLoop(old, new, src, atEOF, Found(old, new, src, i, s))

\* Transform(dst, src, atEOF): (nDst, nSrc, err), dst and the history after
Transform(rr, dst, src, atEOF) ==
    LET s0 == [nDst |-> 0, nSrc |-> 0, err |-> ErrNil, dst |-> dst, history |-> rr.history]
    IN IF Len(src) < Len(rr.old)
       THEN [s0 EXCEPT !.err = ShortSrcErr(atEOF)]
       ELSE IF Len(rr.old) = 0
       THEN [s0 EXCEPT !.dst = Copy(dst, 0, src),
                       !.nDst = CopyLen(dst, 0, src),
                       !.nSrc = CopyLen(dst, 0, src)]
       ELSE TransformLoop(rr.old, rr.new, src, atEOF, s0)

\* dst[:nDst] of a call
Written(res) == Slice(res.dst, 0, res.nDst)

\* ------------------------------------------------------- one stream, driven
VARIABLES
    r,          \* the Replacer: old, new, history
    stream,     \* the whole input of the stream
    fed,        \* how many bytes of stream the caller has read so far
    consumed,   \* how many bytes of stream Transform has consumed (sum of nSrc)
    atEOF,      \* the caller knows that no further input exists
    output,     \* the bytes produced so far (dst[:nDst] of every call, in order)
    last,       \* the last call: its arguments and what it returned
    pc,         \* where a caller that follows the protocol stands
    dstCap,     \* the destination size such a caller supplies
    ncalls,     \* the Transform calls it made
    eofCalls,   \* those made with atEOF = true
    allRoomy,   \* each of its calls had room in dst for its whole result
    table,      \* a ReplaceByteTable: old, new, old, new, ...
    pipeIn,     \* the input last given to the transformer ReplaceAll(table) built
    pipeOut,    \* what that transformer made of it
    pipeRan,    \* such a transformer has run
    hist,       \* a ReplaceHistory used on its own
    appended,   \* the records added to hist, in the order of the add calls
    histOp,     \* the last operation on hist: its arguments and what it returned
    tab,        \* a ReplaceTable of one of the three kinds: its elements
    added,      \* the pairs added to tab, as they were given, in the order of the Add calls
    tabOp       \* the last use of tab: its arguments and what it returned

callVars == <<r, stream, fed, consumed, atEOF, output, last>>
driverVars == <<pc, dstCap, ncalls, eofCalls, allRoomy>>
pipeVars == <<table, pipeIn, pipeOut, pipeRan>>
ledgerVars == <<hist, appended, histOp>>
tableVars == <<tab, added, tabOp>>
vars == <<callVars, driverVars, pipeVars, ledgerVars, tableVars>>

\* a destination no call of the model can fill
BigDst == MaxStream * (MaxNew + 1)

DstSizes == (0..MaxDst) \cup {BigDst}

Olds == SeqsUpTo(Bytes, MaxOld)

News(old) == SeqsUpTo(NewBytes, MaxNew) \cup {old}

\* dst is large enough for whatever src can become
Roomy(d, src, new) == d >= Len(src) * (Len(new) + 1)

\* the unconsumed bytes the caller holds
Pending == Slice(stream, consumed, fed)

NoCall(h) ==
    [called |-> FALSE, dstLen |-> 0, src |-> <<>>, atEOF |-> FALSE, before |-> h,
     res |-> [nDst |-> 0, nSrc |-> 0, err |-> ErrNil, dst |-> <<>>, history |-> h],
     nilRes |-> [nDst |-> 0, nSrc |-> 0, err |-> ErrNil, dst |-> <<>>, history |-> NilHistory]]

\* no operation on a history yet
NoHistOp == [op |-> "none", before |-> NewReplaceHistory, rec |-> <<>>, rejected |-> {},
             visited |-> <<>>, index |-> 0, got |-> <<>>]

\* the history that is used on its own is left alone
NoLedger ==
    /\ hist = NewReplaceHistory
    /\ appended = <<>>
    /\ histOp = NoHistOp

\* no use of a table yet
NoTabOp == [op |-> "none", index |-> 0, got |-> <<>>, rs |-> <<>>]

\* the table that is used on its own is left alone
NoTable ==
    /\ tab = [kind |-> "bytes", elems |-> <<>>]
    /\ added = <<>>
    /\ tabOp = NoTabOp

\* a Replacer with a history on a stream of which nothing is read yet
InitStream ==
    /\ NoLedger
    /\ NoTable
    /\ \E old \in Olds : \E new \in News(old) :
           r = NewReplacer(old, new, NewReplaceHistory)
    /\ last = NoCall(NewReplaceHistory)
    /\ stream \in SeqsUpTo(Bytes, MaxStream)
    /\ fed = 0
    /\ consumed = 0
    /\ atEOF = FALSE
    /\ output = <<>>
    /\ ncalls = 0
    /\ eofCalls = 0
    /\ allRoomy = TRUE
    /\ table = <<>>
    /\ pipeIn = <<>>
    /\ pipeOut = <<>>
    /\ pipeRan = FALSE

\* r.Transform(dst, src, atEOF) with len(dst) = d and src the unconsumed bytes;
\* the caller keeps dst[:nDst] and the bytes of src behind nSrc. nilRes is what
\* a Replacer of the same old and new with a nil history returns for the same
\* arguments
DoTransform(d) ==
    LET res == Transform(r, MakeBytes(d), Pending, atEOF)
        nilRes == Transform(NewReplacer(r.old, r.new, NilHistory), MakeBytes(d), Pending, atEOF)
    IN /\ r' = [r EXCEPT !.history = res.history]
       /\ consumed' = consumed + res.nSrc
       /\ output' = output \o Written(res)
       /\ last' = [called |-> TRUE, dstLen |-> d, src |-> Pending, atEOF |-> atEOF,
                   before |-> r.history, res |-> res, nilRes |-> nilRes]
       /\ UNCHANGED <<stream, fed, atEOF>>

\* ---- any caller: reads, end of input and calls in any order, any dst size
Init ==
    /\ InitStream
    /\ pc = "any"
    /\ dstCap = 0

\* the caller reads n more bytes of the stream behind the unconsumed ones
Read(n) ==
    /\ ~atEOF
    /\ fed + n <= Len(stream)
    /\ fed' = fed + n
    /\ UNCHANGED <<r, stream, consumed, atEOF, output, last, driverVars, pipeVars, ledgerVars, tableVars>>

\* the caller finds that the stream has ended
ReachEOF ==
    /\ ~atEOF
    /\ fed = Len(stream)
    /\ atEOF' = TRUE
    /\ UNCHANGED <<r, stream, fed, consumed, output, last, driverVars, pipeVars, ledgerVars, tableVars>>

Call(d) ==
    /\ DoTransform(d)
    /\ UNCHANGED <<driverVars, pipeVars, ledgerVars, tableVars>>

Next ==
    \/ \E n \in 1..MaxStream : Read(n)
    \/ ReachEOF
    \/ \E d \in DstSizes : Call(d)

Spec == Init /\ [][Next]_vars

\* ---- a caller that follows the protocol of transform.Transformer: it keeps
\* the unconsumed bytes, supplies a larger dst on ErrShortDst, more input on
\* ErrShortSrc, atEOF once no input is left, and stops on a nil error at EOF
DriverInit ==
    /\ InitStream
    /\ pc = "ready"
    /\ dstCap \in DstSizes

LargerDst(d) == IF d < MaxDst THEN d + 1 ELSE BigDst

AfterCall(err, eof, d) ==
    IF err = ErrNil /\ eof THEN "done"
    ELSE IF err = ErrShortDst /\ d < BigDst THEN "grow"
    ELSE "more"

DriverCall ==
    /\ pc = "ready"
    /\ DoTransform(dstCap)
    /\ pc' = AfterCall(last'.res.err, atEOF, dstCap)
    /\ ncalls' = ncalls + 1
    /\ eofCalls' = eofCalls + (IF atEOF THEN 1 ELSE 0)
    /\ allRoomy' = (allRoomy /\ Roomy(dstCap, Pending, r.new))
    /\ UNCHANGED <<dstCap, pipeVars, ledgerVars, tableVars>>

DriverGrow ==
    /\ pc = "grow"
    /\ dstCap' = LargerDst(dstCap)
    /\ pc' = "ready"
    /\ UNCHANGED <<callVars, ncalls, eofCalls, allRoomy, pipeVars, ledgerVars, tableVars>>

DriverRead(n) ==
    /\ pc \in {"more", "ready"}
    /\ ~atEOF
    /\ fed + n <= Len(stream)
    /\ fed' = fed + n
    /\ pc' = "ready"
    /\ UNCHANGED <<r, stream, consumed, atEOF, output, last, dstCap, ncalls, eofCalls, allRoomy, pipeVars, ledgerVars, tableVars>>

DriverEOF ==
    /\ pc \in {"more", "ready"}
    /\ ~atEOF
    /\ fed = Len(stream)
    /\ atEOF' = TRUE
    /\ pc' = "ready"
    /\ UNCHANGED <<r, stream, fed, consumed, output, last, dstCap, ncalls, eofCalls, allRoomy, pipeVars, ledgerVars, tableVars>>

DriverNext ==
    \/ DriverCall
    \/ DriverGrow
    \/ \E n \in 1..MaxStream : DriverRead(n)
    \/ DriverEOF

DriverSpec == DriverInit /\ [][DriverNext]_vars /\ WF_vars(DriverNext)

\* ---- replace tables and ReplaceAll
MaxRules == 2       \* most rules in a table

RuleOlds == SeqsUpTo(Bytes, MaxOld)

RuleNews == SeqsUpTo(Bytes \cup NewBytes, MaxNew)

\* ReplaceByteTable.Add
ByteTableAdd(t, old, new) == t \o <<old, new>>

\* ReplaceByteTable.At
ByteTableAt(t, i) == <<t[i * 2 + 1], t[i * 2 + 2]>>

\* ReplaceByteTable.Len
ByteTableLen(t) == Len(t) \div 2

\* []byte(s) of a string s; a string is [str |-> its bytes]
BytesOfString(s) == s.str

\* ReplaceStringTable.Add
StringTableAdd(t, old, new) == t \o <<old, new>>

\* ReplaceStringTable.At
StringTableAt(t, i) == <<BytesOfString(t[i * 2 + 1]), BytesOfString(t[i * 2 + 2])>>

\* ReplaceStringTable.Len
StringTableLen(t) == Len(t) \div 2

\* utf8.RuneLen(rune): the number of bytes of the encoding of rune, -1 if rune has none
RuneLen(rune) ==
    IF rune < 0 THEN -1
    ELSE IF rune <= 127 THEN 1
    ELSE IF rune <= 2047 THEN 2
    ELSE IF 55296 <= rune /\ rune <= 57343 THEN -1
    ELSE IF rune <= 65535 THEN 3
    ELSE IF rune <= 1114111 THEN 4
    ELSE -1

\* the bytes utf8.EncodeRune writes for rune; for a rune out of range or a
\* surrogate those of U+FFFD
EncodeRune(rune) ==
    IF 0 <= rune /\ rune <= 127 THEN <<rune>>
    ELSE IF 0 <= rune /\ rune <= 2047 THEN <<192 + (rune \div 64), 128 + (rune % 64)>>
    ELSE IF rune < 0 \/ rune > 1114111 \/ (55296 <= rune /\ rune <= 57343) THEN <<239, 191, 189>>
    ELSE IF rune <= 65535
         THEN <<224 + (rune \div 4096), 128 + ((rune \div 64) % 64), 128 + (rune % 64)>>
    ELSE <<240 + (rune \div 262144), 128 + ((rune \div 4096) % 64),
           128 + ((rune \div 64) % 64), 128 + (rune % 64)>>

\* buf := make([]byte, utf8.RuneLen(rune)); utf8.EncodeRune(buf, rune): make panics
\* for a negative length
RuneBytes(rune) ==
    IF RuneLen(rune) < 0 THEN [panic |-> TRUE, bytes |-> <<>>]
    ELSE [panic |-> FALSE, bytes |-> [k \in 1..RuneLen(rune) |-> EncodeRune(rune)[k]]]

\* ReplaceRuneTable.Add
RuneTableAdd(t, old, new) == t \o <<old, new>>

\* ReplaceRuneTable.Len
RuneTableLen(t) == Len(t) \div 2

\* what a call of At returned, or that it panicked
Returned(pair) == [panic |-> FALSE, old |-> pair[1], new |-> pair[2]]
Panicked == [panic |-> TRUE, old |-> <<>>, new |-> <<>>]

\* ReplaceRuneTable.At
RuneTableAt(t, i) ==
    LET old == RuneBytes(t[i * 2 + 1])
        new == RuneBytes(t[i * 2 + 2])
    IN IF old.panic \/ new.panic THEN Panicked ELSE Returned(<<old.bytes, new.bytes>>)

\* the kinds of ReplaceTable; a table is [kind, elems]
TableKinds == {"bytes", "strings", "runes"}

\* t.Add(old, new)
TableAddTo(t, old, new) ==
    [t EXCEPT !.elems = CASE t.kind = "bytes" -> ByteTableAdd(@, old, new)
                          [] t.kind = "strings" -> StringTableAdd(@, old, new)
                          [] t.kind = "runes" -> RuneTableAdd(@, old, new)]

\* t.At(i) through the interface ReplaceTable
TableAt(t, i) ==
    CASE t.kind = "bytes" -> Returned(ByteTableAt(t.elems, i))
      [] t.kind = "strings" -> Returned(StringTableAt(t.elems, i))
      [] t.kind = "runes" -> RuneTableAt(t.elems, i)

\* t.Len() through the interface ReplaceTable
TableLen(t) ==
    CASE t.kind = "bytes" -> ByteTableLen(t.elems)
      [] t.kind = "strings" -> StringTableLen(t.elems)
      [] t.kind = "runes" -> RuneTableLen(t.elems)

\* a ReplaceByteTable as a ReplaceTable
AsByteTable(elems) == [kind |-> "bytes", elems |-> elems]

\* Replace(old, new): a Replacer without a history
Replace(old, new) == NewReplacer(old, new, NilHistory)

\* ReplaceAll(t) panics in one of its calls of t.At
ReplaceAllPanics(t) == \E k \in 1..TableLen(t) : TableAt(t, k - 1).panic

\* the Replacers ReplaceAll(t) hands to transform.Chain, in the order of t
ReplaceAll(t) ==
    [k \in 1..TableLen(t) |-> Replace(TableAt(t, k - 1).old, TableAt(t, k - 1).new)]

\* transform.Chain(rs...) applied to a whole input at EOF: every stage is
\* called once, with atEOF = true and a buffer with room, on what the stage
\* before it produced
RECURSIVE ChainTransform(_, _)
ChainTransform(rs, src) ==
    IF rs = <<>> THEN src
    ELSE LET rr == Head(rs)
             res == Transform(rr, MakeBytes(Len(src) * (Len(rr.new) + 1)), src, TRUE)
         IN ChainTransform(Tail(rs), Written(res))

PipeInit ==
    /\ NoLedger
    /\ NoTable
    /\ r = NewReplacer(<<>>, <<>>, NilHistory)
    /\ last = NoCall(NilHistory)
    /\ stream = <<>>
    /\ fed = 0
    /\ consumed = 0
    /\ atEOF = FALSE
    /\ output = <<>>
    /\ ncalls = 0
    /\ eofCalls = 0
    /\ allRoomy = TRUE
    /\ pc = "pipe"
    /\ dstCap = 0
    /\ table = <<>>
    /\ pipeIn = <<>>
    /\ pipeOut = <<>>
    /\ pipeRan = FALSE

\* t.Add(old, new), before the table is used
TableAdd(old, new) ==
    /\ ~pipeRan
    /\ ByteTableLen(table) < MaxRules
    /\ table' = ByteTableAdd(table, old, new)
    /\ UNCHANGED <<callVars, driverVars, pipeIn, pipeOut, pipeRan, ledgerVars, tableVars>>

\* ReplaceAll(table) transforms the input in
RunPipeline(in) ==
    /\ ~pipeRan
    /\ pipeIn' = in
    /\ pipeOut' = ChainTransform(ReplaceAll(AsByteTable(table)), in)
    /\ pipeRan' = TRUE
    /\ UNCHANGED <<callVars, driverVars, table, ledgerVars, tableVars>>

PipeNext ==
    \/ \E old \in RuleOlds : \E new \in RuleNews : TableAdd(old, new)
    \/ \E in \in SeqsUpTo(Bytes, MaxStream) : RunPipeline(in)

PipeSpec == PipeInit /\ [][PipeNext]_vars

\* ------------------------------------------------- what the claims refer to
\* the non-streaming replace-all: leftmost, non-overlapping; an empty old
\* replaces nothing
RECURSIVE ReplaceAllRef(_, _, _)
ReplaceAllRef(s, old, new) ==
    IF Len(old) = 0 \/ Len(s) < Len(old) THEN s
    ELSE IF Slice(s, 0, Len(old)) = old
         THEN new \o ReplaceAllRef(Slice(s, Len(old), Len(s)), old, new)
         ELSE <<s[1]>> \o ReplaceAllRef(Slice(s, 1, Len(s)), old, new)

\* the offset behind the last leftmost, non-overlapping occurrence of old in s
RECURSIVE MatchEnd(_, _, _)
MatchEnd(s, old, from) ==
    IF Len(s) - from < Len(old) THEN 0
    ELSE IF Slice(s, from, from + Len(old)) = old
         THEN LET e == MatchEnd(s, old, from + Len(old))
              IN IF e = 0 THEN from + Len(old) ELSE e
         ELSE MatchEnd(s, old, from + 1)

\* the offsets at which old occurs in s
Occurrences(s, old) == {k \in 0..(Len(s) - Len(old)) : Slice(s, k, k + Len(old)) = old}

\* ------------------------------------------------------------------ claims
\* C1  Whole-stream equivalence: a call with atEOF = true, a non-empty old and
\* a dst large enough for the full result returns a nil error, consumes all of
\* src and writes the non-streaming replace-all of src (also when src is
\* shorter than old).
WholeStreamEquivalence ==
    (/\ last.called
     /\ last.atEOF
     /\ r.old # <<>>
     /\ last.dstLen >= Len(ReplaceAllRef(last.src, r.old, r.new)))
    => /\ last.res.err = ErrNil
       /\ last.res.nSrc = Len(last.src)
       /\ Written(last.res) = ReplaceAllRef(last.src, r.old, r.new)

\* C2  Boundary invariance: a stream with exactly one occurrence of a
\* non-empty old, fed as stream[0:k] with atEOF = false and then the unconsumed
\* bytes followed by stream[k:] with atEOF = true, each time with a roomy dst,
\* gives the output of the single call with atEOF = true.
BoundaryInvariance ==
    (/\ pc = "done"
     /\ ncalls = 2
     /\ eofCalls = 1
     /\ allRoomy
     /\ r.old # <<>>
     /\ Cardinality(Occurrences(stream, r.old)) = 1)
    => output = Written(Transform(r, MakeBytes(BigDst), stream, TRUE))

\* C3  Flow-control resolvability: a caller that follows the protocol ends, for
\* a non-empty old, with a call that returns a nil error at EOF and with every
\* byte of the stream consumed.
FlowControlResolves ==
    (r.old # <<>> /\ pc = "done") => consumed = Len(stream)

\* the records of a history, as a sequence of 4-tuples
Records(h) == [k \in 1..Len(h.src0) |-> At(h, k - 1)]

\* C4  Ledger length law: every record (src0, src1, dst0, dst1) of the ledger
\* has src1 - src0 = len(old) and dst1 - dst0 = len(new), whatever calls were
\* made.
LedgerLengthLaw ==
    \A k \in 1..Len(Records(r.history)) :
        LET rec == Records(r.history)[k]
        IN /\ rec[2] - rec[1] = Len(r.old)
           /\ rec[4] - rec[3] = Len(r.new)

LedgerLengthWitness ==
    /\ Len(Records(r.history)) >= 2
    /\ Len(last.res.history.src0) > Len(last.before.src0)
    /\ Len(last.before.src0) > 0
    /\ Len(r.old) # Len(r.new)

\* consecutive records of a sequence of records are strictly increasing and do
\* not overlap, in the source and in the destination
StrictlyOrdered(recs) ==
    \A k \in 1..Len(recs) :
        /\ recs[k][1] < recs[k][2]
        /\ recs[k][3] < recs[k][4]
        /\ k < Len(recs) => /\ recs[k][2] <= recs[k + 1][1]
                            /\ recs[k][4] <= recs[k + 1][3]

LastRecords == SubSeq(Records(r.history), Len(last.before.src0) + 1, Len(r.history.src0))

StoppedBeforeMatch ==
    /\ last.called
    /\ r.old # <<>>
    /\ Len(last.src) >= Len(r.old)
    /\ LET i == Index(Slice(last.src, last.res.nSrc, Len(last.src)), r.old)
       IN /\ i # -1
          /\ last.dstLen - last.res.nDst < i + Len(r.new)

\* C7  Insufficient destination before a match: the call stops, returns as
\* consumed and produced what it had written, and reports ErrShortDst, both
\* when nothing was written in the call and when earlier matches were.
InsufficientDstBeforeMatch ==
    StoppedBeforeMatch
    => /\ last.res.err = ErrShortDst
       /\ Written(last.res) = ReplaceAllRef(Slice(last.src, 0, last.res.nSrc), r.old, r.new)

\* C8  Destination starvation: a call with len(dst) = 0 and a non-empty src
\* reports ErrShortDst and returns nSrc = 0 and nDst = 0, for any old, any new
\* and either atEOF.
DestinationStarvation ==
    (last.called /\ last.dstLen = 0 /\ last.src # <<>>)
    => /\ last.res.err = ErrShortDst
       /\ last.res.nSrc = 0
       /\ last.res.nDst = 0

\* C9  Need-more-source: a call with atEOF = false and a src shorter than old
\* returns nSrc = 0, nDst = 0 and ErrShortSrc and leaves dst and the ledger as
\* they were.
NeedMoreSource ==
    (last.called /\ ~last.atEOF /\ Len(last.src) < Len(r.old))
    => /\ last.res.nSrc = 0
       /\ last.res.nDst = 0
       /\ last.res.err = ErrShortSrc
       /\ last.res.dst = MakeBytes(last.dstLen)
       /\ last.res.history = last.before
       /\ r.history = last.before

NeedMoreSourceWitness ==
    /\ last.called
    /\ ~last.atEOF
    /\ Len(last.src) < Len(r.old)
    /\ last.src # <<>>
    /\ last.dstLen > 0
    /\ Len(last.before.src0) > 0

\* where the remainder in which the last call found no occurrence begins
TailStart == MatchEnd(last.src, r.old, 0)

\* len(remainder) mod len(old)
TailBoundary == (Len(last.src) - TailStart) % Len(r.old)

\* the last call, with atEOF = false and a non-empty old, found no occurrence
\* in the remainder, whose trailing TailBoundary bytes are a non-empty prefix
\* of old
WithholdingCase ==
    /\ last.called
    /\ ~last.atEOF
    /\ r.old # <<>>
    /\ Len(last.src) >= Len(r.old)
    /\ Index(Slice(last.src, last.res.nSrc, Len(last.src)), r.old) = -1
    /\ TailBoundary # 0
    /\ HasPrefix(r.old, Slice(last.src, Len(last.src) - TailBoundary, Len(last.src)))

\* all of src but the withheld bytes is consumed and its replace-all written
TailCopied ==
    /\ last.res.nSrc = Len(last.src) - TailBoundary
    /\ Written(last.res) =
           ReplaceAllRef(Slice(last.src, 0, Len(last.src) - TailBoundary), r.old, r.new)

\* nothing of the remainder is consumed or written
TailKept ==
    /\ last.res.nSrc = TailStart
    /\ Written(last.res) = ReplaceAllRef(Slice(last.src, 0, TailStart), r.old, r.new)

\* dst has room, behind what the matches produced, for the bytes of the
\* remainder in front of the withheld ones
TailRoom ==
    last.dstLen - Len(ReplaceAllRef(Slice(last.src, 0, TailStart), r.old, r.new))
        >= Len(last.src) - TailStart - TailBoundary

RECURSIVE SequentialRef(_, _)
SequentialRef(t, s) ==
    IF ByteTableLen(t) = 0 THEN s
    ELSE SequentialRef(SubSeq(t, 3, Len(t)), ReplaceAllRef(s, t[1], t[2]))

\* C6  Sequential pipeline semantics: for every input, ReplaceAll over a table
\* produces rule 0's replace-all of the input, then rule 1's replace-all of
\* that, and so on in table order.
SequentialPipeline ==
    pipeRan => pipeOut = SequentialRef(table, pipeIn)

\* C11  Boundary withholding as the doc comment of Transform has it: when the
\* end of src matches a part of old and atEOF is false, Transform leaves the
\* boundary bytes for the next call, so that nSrc is less than len(src), and
\* returns ErrShortSrc.
BoundaryWithholdingDoc ==
    (WithholdingCase /\ TailRoom)
    => /\ last.res.nSrc = Len(last.src) - TailBoundary
       /\ last.res.nSrc < Len(last.src)
       /\ last.res.err = ErrShortSrc

\* C13  Empty pattern with short destination: with an empty old, a call whose
\* dst is shorter than src copies len(dst) bytes (nSrc = nDst = len(dst)),
\* reports ErrShortDst and leaves the ledger untouched.
EmptyOldShortDst ==
    (last.called /\ r.old = <<>> /\ last.dstLen < Len(last.src))
    => /\ last.res.nSrc = last.dstLen
       /\ last.res.nDst = last.dstLen
       /\ Written(last.res) = Slice(last.src, 0, last.dstLen)
       /\ last.res.err = ErrShortDst
       /\ last.res.history = last.before

\* C18  A nil error means the chunk is finished: a call that returns a nil
\* error has consumed the whole of src, for any old, new, dst size and atEOF.
NilMeansFinished ==
    (last.called /\ last.res.err = ErrNil) => last.res.nSrc = Len(last.src)

\* C12  Identity pattern: with an empty old, whatever the chunking, a caller
\* that carries the unconsumed bytes forward ends with the input as output,
\* byte for byte, and with an empty ledger.
IdentityPattern ==
    (r.old = <<>> /\ pc = "done")
    => /\ output = stream
       /\ Records(r.history) = <<>>

\* the leftmost, non-overlapping occurrences of old in s, counted
RECURSIVE NumMatches(_, _)
NumMatches(s, old) ==
    IF Len(old) = 0 \/ Len(s) < Len(old) THEN 0
    ELSE IF Slice(s, 0, Len(old)) = old
         THEN 1 + NumMatches(Slice(s, Len(old), Len(s)), old)
         ELSE NumMatches(Slice(s, 1, Len(s)), old)

\* C14  No-op replacement: with a non-empty old equal to new and an empty
\* ledger attached, for every input the output equals the input and the ledger
\* ends with one record per leftmost, non-overlapping occurrence of old.
NoOpReplacement ==
    (/\ last.called
     /\ last.atEOF
     /\ r.old # <<>>
     /\ r.new = r.old
     /\ last.before = NewReplaceHistory
     /\ last.dstLen >= Len(last.src))
    => /\ Written(last.res) = last.src
       /\ Len(Records(last.res.history)) = NumMatches(last.src, r.old)

\* the bytes of s that are bytes of a new no input contains
NewBytesIn(s) == {k \in 1..Len(s) : s[k] \in NewBytes}

\* C19  Each match is recorded exactly once: a call appends as many records as
\* it wrote replacements (those of the src it counted in nSrc), each within
\* src[:nSrc] and dst[:nDst], so that over all calls the ledger has one record
\* per replacement in the output.
EachMatchRecordedOnce ==
    /\ last.called =>
          /\ Len(LastRecords) = NumMatches(Slice(last.src, 0, last.res.nSrc), r.old)
          /\ Written(last.res) = ReplaceAllRef(Slice(last.src, 0, last.res.nSrc), r.old, r.new)
          /\ Slice(Records(r.history), 0, Len(last.before.src0)) = Records(last.before)
          /\ \A k \in 1..Len(LastRecords) :
                /\ LastRecords[k][2] <= last.res.nSrc
                /\ LastRecords[k][4] <= last.res.nDst
                /\ Slice(last.src, LastRecords[k][1], LastRecords[k][2]) = r.old
                /\ Slice(last.res.dst, LastRecords[k][3], LastRecords[k][4]) = r.new
    /\ (r.new # <<>> /\ \A k \in 1..Len(r.new) : r.new[k] \in NewBytes)
          => Cardinality(NewBytesIn(output)) = Len(r.new) * Len(Records(r.history))

EachMatchRecordedOnceWitness ==
    /\ last.called
    /\ Len(last.before.src0) > 0
    /\ Len(LastRecords) > 0
    /\ last.res.nSrc < Len(last.src)
    /\ Index(Slice(last.src, last.res.nSrc, Len(last.src)), r.old) # -1
    /\ Cardinality(NewBytesIn(output)) >= 2

\* C20  Cursor bounds: every call returns 0 <= nSrc <= len(src) and
\* 0 <= nDst <= len(dst), dst keeps its length, and no byte of dst at an index
\* >= nDst is written.
CursorBounds ==
    last.called
    => /\ 0 <= last.res.nSrc /\ last.res.nSrc <= Len(last.src)
       /\ 0 <= last.res.nDst /\ last.res.nDst <= last.dstLen
       /\ Len(last.res.dst) = last.dstLen
       /\ \A k \in (last.res.nDst + 1)..last.dstLen : last.res.dst[k] = Blank

CursorBoundsWitness ==
    /\ last.called
    /\ 0 < last.res.nDst
    /\ last.res.nDst < last.dstLen
    /\ 0 < last.res.nSrc
    /\ last.res.nSrc < Len(last.src)
    /\ Len(LastRecords) > 0

\* C16  An absent ledger is tolerated and does not affect the transform: with
\* a nil history add and Iterate do nothing, and on every call a Replacer
\* without a history returns the same nDst, nSrc and error and writes the same
\* bytes to dst as the Replacer with the same old and new and a history.
NilLedgerTolerated ==
    last.called
    => /\ last.nilRes.nDst = last.res.nDst
       /\ last.nilRes.nSrc = last.res.nSrc
       /\ last.nilRes.err = last.res.err
       /\ last.nilRes.dst = last.res.dst
       /\ last.nilRes.history = NilHistory
       /\ Iterate(last.nilRes.history, {}) = <<>>

NilLedgerToleratedWitness ==
    /\ last.called
    /\ Len(last.before.src0) > 0
    /\ Len(LastRecords) > 0
    /\ last.nilRes.nDst > 0
    /\ last.nilRes.history = NilHistory

\* ---- a ReplaceHistory on its own: add, Iterate and At in any order
MaxAdds == 3        \* most records added to the history

\* the arguments add is called with
AddArgs == {<<0, 1, 0, 1>>, <<1, 2, 1, 1>>, <<2, 4, 1, 3>>}

\* the stream, the driver and the pipeline are left alone
NoStream ==
    /\ r = NewReplacer(<<>>, <<>>, NilHistory)
    /\ last = NoCall(NilHistory)
    /\ stream = <<>>
    /\ fed = 0
    /\ consumed = 0
    /\ atEOF = FALSE
    /\ output = <<>>
    /\ ncalls = 0
    /\ eofCalls = 0
    /\ allRoomy = TRUE
    /\ dstCap = 0
    /\ table = <<>>
    /\ pipeIn = <<>>
    /\ pipeOut = <<>>
    /\ pipeRan = FALSE

\* a history, made by NewReplaceHistory or nil
LedgerInit ==
    /\ NoStream
    /\ NoTable
    /\ pc = "ledger"
    /\ hist \in {NewReplaceHistory, NilHistory}
    /\ appended = <<>>
    /\ histOp = NoHistOp

\* hist.add(rec...)
HistAdd(rec) ==
    /\ Len(appended) < MaxAdds
    /\ hist' = add(hist, rec[1], rec[2], rec[3], rec[4])
    /\ appended' = Append(appended, rec)
    /\ histOp' = [NoHistOp EXCEPT !.op = "add", !.before = hist, !.rec = rec]
    /\ UNCHANGED <<callVars, driverVars, pipeVars, tableVars>>

\* hist.Iterate(f), f returning false for the records in rejected
HistIterate(rejected) ==
    /\ histOp' = [NoHistOp EXCEPT !.op = "iterate", !.before = hist, !.rejected = rejected,
                                  !.visited = Iterate(hist, rejected)]
    /\ UNCHANGED <<callVars, driverVars, pipeVars, hist, appended, tableVars>>

\* hist.At(index) of a history that is not nil, the index in range
HistAt(index) ==
    /\ ~hist.isNil
    /\ index < Len(hist.src0)
    /\ histOp' = [NoHistOp EXCEPT !.op = "at", !.before = hist, !.index = index,
                                  !.got = At(hist, index)]
    /\ UNCHANGED <<callVars, driverVars, pipeVars, hist, appended, tableVars>>

LedgerNext ==
    \/ \E rec \in AddArgs : HistAdd(rec)
    \/ \E rejected \in SUBSET AddArgs : HistIterate(rejected)
    \/ \E index \in 0..(MaxAdds - 1) : HistAt(index)

LedgerSpec == LedgerInit /\ [][LedgerNext]_vars

\* the records before the first one of s in rejected, and that one
RECURSIVE UpToFirstRejected(_, _)
UpToFirstRejected(s, rejected) ==
    IF s = <<>> THEN <<>>
    ELSE IF Head(s) \in rejected THEN <<Head(s)>>
    ELSE <<Head(s)>> \o UpToFirstRejected(Tail(s), rejected)

\* C15  The ledger is append-only and ordered: after any adds, the history
\* holds the added records in the order of the adds; add appends its record
\* and keeps the earlier ones; Iterate visits the records in that order and
\* stops after the first visit its visitor answers with false; At(i) returns
\* the i-th added record; and neither Iterate nor At changes the history.
LedgerAppendOnlyOrdered ==
    ~hist.isNil
    => /\ Records(hist) = appended
       /\ histOp.op = "add" => Records(hist) = Append(Records(histOp.before), histOp.rec)
       /\ histOp.op = "iterate" =>
             /\ histOp.visited = UpToFirstRejected(appended, histOp.rejected)
             /\ hist = histOp.before
       /\ histOp.op = "at" =>
             /\ histOp.got = appended[histOp.index + 1]
             /\ hist = histOp.before

\* an Iterate over three records, two of them the same, that stopped at the second
LedgerAppendOnlyOrderedWitness ==
    /\ ~hist.isNil
    /\ histOp.op = "iterate"
    /\ Len(appended) = MaxAdds
    /\ appended[1] # appended[2]
    /\ appended[1] = appended[Len(appended)]
    /\ Len(histOp.visited) = 2

\* ---- a ReplaceTable on its own: Add, At, Len and ReplaceAll
\* the elements of the tables: byte slices, strings and runes (one of each
\* length of encoding, and a surrogate)
TabBytes == {<<>>, <<"a">>, <<"a", "b">>}
TabStrings == {[str |-> b] : b \in TabBytes}
TabRunes == {97, 233, 8364, 128512, 55296}

TabElems(kind) ==
    CASE kind = "bytes" -> TabBytes
      [] kind = "strings" -> TabStrings
      [] kind = "runes" -> TabRunes

\* an empty table of one of the three kinds
TableInit ==
    /\ NoStream
    /\ NoLedger
    /\ pc = "table"
    /\ \E kind \in TableKinds : tab = [kind |-> kind, elems |-> <<>>]
    /\ added = <<>>
    /\ tabOp = NoTabOp

\* tab.Add(old, new)
TabAdd(old, new) ==
    /\ Len(added) < MaxRules
    /\ tab' = TableAddTo(tab, old, new)
    /\ added' = Append(added, <<old, new>>)
    /\ tabOp' = [NoTabOp EXCEPT !.op = "add"]
    /\ UNCHANGED <<callVars, driverVars, pipeVars, ledgerVars>>

\* tab.At(index), the index in range
TabAt(index) ==
    /\ index < TableLen(tab)
    /\ tabOp' = [NoTabOp EXCEPT !.op = "at", !.index = index, !.got = TableAt(tab, index)]
    /\ UNCHANGED <<callVars, driverVars, pipeVars, ledgerVars, tab, added>>

\* ReplaceAll(tab)
TabReplaceAll ==
    /\ tabOp' = [NoTabOp EXCEPT !.op = "all",
                                !.got = IF ReplaceAllPanics(tab) THEN Panicked
                                        ELSE Returned(<<<<>>, <<>>>>),
                                !.rs = IF ReplaceAllPanics(tab) THEN <<>> ELSE ReplaceAll(tab)]
    /\ UNCHANGED <<callVars, driverVars, pipeVars, ledgerVars, tab, added>>

TableNext ==
    \/ \E old, new \in TabElems(tab.kind) : TabAdd(old, new)
    \/ \E index \in 0..(MaxRules - 1) : TabAt(index)
    \/ TabReplaceAll

TableSpec == TableInit /\ [][TableNext]_vars

\* the UTF-8 encoding of the runes of TabRunes; that of a surrogate is the
\* encoding of U+FFFD, as utf8.EncodeRune and []byte(string(r)) give it
Utf8Of(rune) ==
    CASE rune = 97 -> <<97>>
      [] rune = 233 -> <<195, 169>>
      [] rune = 8364 -> <<226, 130, 172>>
      [] rune = 128512 -> <<240, 159, 152, 128>>
      [] rune = 55296 -> <<239, 191, 189>>

\* the byte form of an element of a table of a kind
ByteForm(kind, x) ==
    CASE kind = "bytes" -> x
      [] kind = "strings" -> x.str
      [] kind = "runes" -> Utf8Of(x)

\* the byte form of the k-th added pair
AddedPair(k) == Returned(<<ByteForm(tab.kind, added[k][1]), ByteForm(tab.kind, added[k][2])>>)

\* C17  Pattern table contract: for each of the three backings, after k Add
\* calls on an empty table Len() = k, At(i) returns the byte form of the i-th
\* added pair (strings as their bytes, each rune as its UTF-8 encoding), and
\* ReplaceAll builds one Replacer per entry, in that order.
PatternTableContract ==
    /\ TableLen(tab) = Len(added)
    /\ tabOp.op = "at" => tabOp.got = AddedPair(tabOp.index + 1)
    /\ tabOp.op = "all" =>
          /\ ~tabOp.got.panic
          /\ tabOp.rs = [k \in 1..Len(added) |-> Replace(AddedPair(k).old, AddedPair(k).new)]

====
